---- MODULE Spec2Model ----
(***************************************************************************)
(* Model of source/common/common/key_value_store_base.cc: the length       *)
(* prefixed token reader, the contents parser, the store operations, the   *)
(* iteration contract and the flush timer.                                 *)
(*                                                                         *)
(* Strings are sequences of byte values (10 is the newline, 48..57 are the *)
(* digits).  A store is a set of <<key, value>> pairs.                     *)
(***************************************************************************)
EXTENDS Integers, Sequences, FiniteSets, TLC

VARIABLES
    \* ---- parseContents -------------------------------------------------
    in_pairs,      \* the pairs the input buffer was serialized from
    in_rem,        \* the bytes that follow them in the input buffer
    target0,       \* the target mapping at the call
    contents,      \* the string_view still to be parsed
    target,        \* the mapping parseContents fills ("store" parameter)
    error,         \* the local std::string error
    parse_pc,      \* "loop" | "true" | "false"
    \* ---- KeyValueStoreBase ---------------------------------------------
    store_,                  \* the flat_hash_map of the store
    flush_interval,          \* the interval captured at construction
    timer_enabled,           \* flush_timer_->enabled()
    timer_interval,          \* duration of the last enableTimer call
    timer_pc,                \* "idle" | "flushed" (inside the timer callback)
    debug,                   \* TRUE iff NDEBUG is not defined
    flush_calls,             \* flush() invocations of the last handler run
    flushed,                 \* the mapping the last flush() observed
    call,                    \* the last call made on the store
    last_write,              \* per key: what the most recent call said
    it_pc,                   \* "idle" | "loop" | "in_cb" | "aborted"
    store_before_iteration,  \* the debug snapshot of iterate
    remaining,               \* keys the range-for has not yet reached
    visited,                 \* <<key, value>> of the callback invocations
    it_mutated,              \* the callback called addOrUpdate/remove
    it_end                   \* how the last iterate ended

parse_vars == <<in_pairs, in_rem, target0, contents, target, error, parse_pc>>
store_vars == <<store_, flush_interval, timer_enabled, timer_interval, timer_pc,
                debug, flush_calls, flushed, call, last_write, it_pc,
                store_before_iteration, remaining, visited, it_mutated, it_end>>
vars == <<parse_vars, store_vars>>

----------------------------------------------------------------------------
(* Bytes *)

NL == 10
IsDigit(c) == c \in 48..57
IsSpace(c) == c \in {9, 10, 11, 12, 13, 32}

SetMin(S) == CHOOSE x \in S : \A y \in S : x <= y
SetMax(S) == CHOOSE x \in S : \A y \in S : x >= y

DropPrefix(s, n) == SubSeq(s, n + 1, Len(s))
TakePrefix(s, n) == SubSeq(s, 1, n)

----------------------------------------------------------------------------
(* absl::SimpleAtoi into a uint64_t *)

\* The decimal digits of 2^64 - 1.
Uint64MaxDigits ==
    <<49,56,52,52,54,55,52,52,48,55,51,55,48,57,53,53,49,54,49,53>>

\* Any length of ten digits or more exceeds every buffer of the model; such
\* a value is kept as this one number.
Huge == 1000000000

StripSpace(s) ==
    LET idx == {i \in 1..Len(s) : ~IsSpace(s[i])}
    IN  IF idx = {} THEN <<>> ELSE SubSeq(s, SetMin(idx), SetMax(idx))

StripZeros(d) ==
    LET idx == {i \in 1..Len(d) : d[i] # 48}
    IN  IF idx = {} THEN <<>> ELSE SubSeq(d, SetMin(idx), Len(d))

\* d and e are digit strings of the same length
LexGreater(d, e) ==
    \E i \in 1..Len(d) :
        /\ d[i] > e[i]
        /\ \A j \in 1..(i - 1) : d[j] = e[j]

RECURSIVE DigitsValue(_)
DigitsValue(d) ==
    IF d = <<>> THEN 0
    ELSE 10 * DigitsValue(TakePrefix(d, Len(d) - 1)) + (d[Len(d)] - 48)

\* SimpleAtoi reducing an overflowing length modulo 2^64 (2^64 ends in
\* ...551616; values that wrap to more than six digits are kept as Huge)
SimpleAtoi_wraps(s) ==
    LET t    == StripSpace(s)
        sign == t # <<>> /\ t[1] \in {43, 45}
        neg  == t # <<>> /\ t[1] = 45
        d    == IF sign THEN DropPrefix(t, 1) ELSE t
        sig  == StripZeros(d)
    IN  IF d = <<>> \/ neg \/ \E i \in 1..Len(d) : ~IsDigit(d[i])
          THEN [ok |-> FALSE, value |-> 0]
        ELSE IF Len(sig) > 20 \/ (Len(sig) = 20 /\ LexGreater(sig, Uint64MaxDigits))
          THEN IF Len(sig) = 20 /\ TakePrefix(sig, 14) = TakePrefix(Uint64MaxDigits, 14)
                 THEN [ok |-> TRUE, value |-> DigitsValue(DropPrefix(sig, 14)) - 551616]
                 ELSE [ok |-> TRUE, value |-> Huge]
        ELSE IF Len(sig) > 9
          THEN [ok |-> TRUE, value |-> Huge]
        ELSE [ok |-> TRUE, value |-> DigitsValue(sig)]

SimpleAtoi(s) ==
    LET t    == StripSpace(s)
        sign == t # <<>> /\ t[1] \in {43, 45}
        neg  == t # <<>> /\ t[1] = 45
        d    == IF sign THEN DropPrefix(t, 1) ELSE t
        sig  == StripZeros(d)
    IN  IF d = <<>> \/ neg \/ \E i \in 1..Len(d) : ~IsDigit(d[i])
          THEN [ok |-> FALSE, value |-> 0]
        ELSE IF Len(sig) > 20 \/ (Len(sig) = 20 /\ LexGreater(sig, Uint64MaxDigits))
          THEN [ok |-> FALSE, value |-> 0]
        ELSE IF Len(sig) > 9
          THEN [ok |-> TRUE, value |-> Huge]
        ELSE [ok |-> TRUE, value |-> DigitsValue(sig)]

----------------------------------------------------------------------------
(* getToken *)

NoError == "none"
ErrNoNewline == "Bad file: no newline"
ErrNoLength == "Bad file: no length"
ErrInsufficient == "Bad file: insufficient contents"

\* contents.find("\n") as a 1-based position, 0 for npos
FindNewline(s) ==
    LET idx == {i \in 1..Len(s) : s[i] = NL}
    IN  IF idx = {} THEN 0 ELSE SetMin(idx)

\* getToken with remove_prefix(it) in place of remove_prefix(it + 1)
getToken_keepsNewline(cont, err) ==
    LET it     == FindNewline(cont)
        length == SimpleAtoi(TakePrefix(cont, it - 1))
        rest   == DropPrefix(cont, it - 1)
    IN  IF it = 0
          THEN [ok |-> FALSE, token |-> <<>>, contents |-> cont, error |-> ErrNoNewline]
        ELSE IF ~length.ok
          THEN [ok |-> FALSE, token |-> <<>>, contents |-> cont, error |-> ErrNoLength]
        ELSE IF Len(rest) < length.value
          THEN [ok |-> FALSE, token |-> <<>>, contents |-> rest, error |-> ErrInsufficient]
        ELSE [ok |-> TRUE, token |-> TakePrefix(rest, length.value),
              contents |-> DropPrefix(rest, length.value), error |-> err]

\* getToken with contents.size() <= length as the test for too few bytes
getToken_rejectsExactFit(cont, err) ==
    LET it     == FindNewline(cont)
        length == SimpleAtoi(TakePrefix(cont, it - 1))
        rest   == DropPrefix(cont, it)
    IN  IF it = 0
          THEN [ok |-> FALSE, token |-> <<>>, contents |-> cont, error |-> ErrNoNewline]
        ELSE IF ~length.ok
          THEN [ok |-> FALSE, token |-> <<>>, contents |-> cont, error |-> ErrNoLength]
        ELSE IF Len(rest) <= length.value
          THEN [ok |-> FALSE, token |-> <<>>, contents |-> rest, error |-> ErrInsufficient]
        ELSE [ok |-> TRUE, token |-> TakePrefix(rest, length.value),
              contents |-> DropPrefix(rest, length.value), error |-> err]

\* The result carries the view and the error string as getToken leaves them.
getToken(cont, err) ==
    LET it     == FindNewline(cont)
        length == SimpleAtoi(TakePrefix(cont, it - 1))
        rest   == DropPrefix(cont, it)
    IN  IF it = 0
          THEN [ok |-> FALSE, token |-> <<>>, contents |-> cont, error |-> ErrNoNewline]
        ELSE IF ~length.ok
          THEN [ok |-> FALSE, token |-> <<>>, contents |-> cont, error |-> ErrNoLength]
        ELSE IF Len(rest) < length.value
          THEN [ok |-> FALSE, token |-> <<>>, contents |-> rest, error |-> ErrInsufficient]
        ELSE [ok |-> TRUE, token |-> TakePrefix(rest, length.value),
              contents |-> DropPrefix(rest, length.value), error |-> err]

----------------------------------------------------------------------------
(* The mapping: a set of <<key, value>> pairs *)

\* absl::nullopt: no byte string, since bytes are 0..255
Absent == <<-1>>

KeysOf(m) == {p[1] : p \in m}
Contains(m, k) == k \in KeysOf(m)
Lookup(m, k) == IF Contains(m, k) THEN (CHOOSE p \in m : p[1] = k)[2] ELSE Absent
UniqueKeys(m) == \A p \in m : \A q \in m : p[1] = q[1] => p = q

\* emplace taken for insert_or_assign
emplace_overwrites(m, k, v) == {p \in m : p[1] # k} \cup {<<k, v>>}

\* flat_hash_map::emplace: inserts unless the key is present
emplace(m, k, v) == IF Contains(m, k) THEN m ELSE m \cup {<<k, v>>}

\* flat_hash_map::insert_or_assign
insert_or_assign(m, k, v) == {p \in m : p[1] # k} \cup {<<k, v>>}

\* flat_hash_map::erase(key)
erase(m, k) == {p \in m : p[1] # k}

----------------------------------------------------------------------------
(* The wire format *)

RECURSIVE Decimal(_)
Decimal(n) ==
    IF n < 10 THEN <<48 + n>> ELSE Decimal(n \div 10) \o <<48 + (n % 10)>>

SerializeToken(t) == Decimal(Len(t)) \o <<NL>> \o t

RECURSIVE Serialize(_)
Serialize(ps) ==
    IF ps = <<>> THEN <<>>
    ELSE SerializeToken(ps[1][1]) \o SerializeToken(ps[1][2]) \o Serialize(Tail(ps))

----------------------------------------------------------------------------
(* Inputs of parseContents *)

MaxPairs == 2
MaxRaw == 3

LongValue == [i \in 1..12 |-> IF i % 2 = 0 THEN NL ELSE 49]

ParseKeys == {<<>>, <<97>>, <<49, NL>>}
ParseValues == {<<>>, <<98>>, <<NL, 50>>, LongValue}
RawBytes == {NL, 48, 49, 97}

\* The decimal digits of 2^64 and of 2^64 + 1
TwoTo64Digits ==
    <<49,56,52,52,54,55,52,52,48,55,51,55,48,57,53,53,49,54,49,54>>
TwoTo64Plus1Digits ==
    <<49,56,52,52,54,55,52,52,48,55,51,55,48,57,53,53,49,54,49,55>>

\* Remainders that exercise the three errors, the sign, the blanks and the
\* lengths around 2^64
Tails ==
    { <<>>,
      <<49, NL, 97>>,                  \* key without a value token
      <<49, NL, 97, 49, NL>>,          \* value token truncated
      <<49, NL, 97, 50, NL, 98>>,      \* value shorter than declared
      <<49, NL, 97, 49>>,              \* value prefix without newline
      <<49, NL, 97, 120, NL, 98>>,     \* value length not a number
      <<43, 49, NL, 97, 32, 49, NL, 98>>,   \* "+1" and " 1" as lengths
      <<45, 49, NL, 97, 49, NL, 98>>,  \* negative length
      <<48, 49, NL, 97, 48, NL, 49, NL, 97, 49, NL, 98>>,
      TwoTo64Digits \o <<NL, 48, NL>>,            \* 2^64: would wrap to 0
      TwoTo64Plus1Digits \o <<NL, 97, 49, NL, 98>>,   \* would wrap to 1
      <<49, NL, 97>> \o TwoTo64Digits \o <<NL>>,  \* overflowing value length
      Uint64MaxDigits \o <<NL, 97, 98>>,          \* fits, exceeds the buffer
      <<49>> \o TwoTo64Digits \o <<NL, 97>>,      \* 21 digits
      <<48, 48>> \o TwoTo64Digits \o <<NL, 97>>,  \* 2^64 with leading zeros
      [i \in 1..21 |-> 48] \o <<49, NL, 97, 49, NL, 98>>,  \* 1 in 22 digits
      <<49, 48, 48, 48, 48, 48, 48, 48, 48, 48, NL, 97>> }  \* 10^9

SeqsUpTo(S, n) == UNION {[1..m -> S] : m \in 0..n}

PairLists == SeqsUpTo(ParseKeys \X ParseValues, MaxPairs)
RawStrings == SeqsUpTo(RawBytes, MaxRaw)

ParseInputs ==
    (PairLists \X Tails)
      \cup ({ps \in PairLists : Len(ps) <= 1} \X RawStrings)

Targets0 == { {}, {<<<<97>>, <<NL, 50>>>>, <<<<120>>, <<>>>>} }

----------------------------------------------------------------------------
(* KeyValueStoreBase::parseContents *)

Keys == {<<97>>, <<98>>}
Values == {<<120>>, <<121>>}
Intervals == {-1, 0, 10}
MaxVisits == 2

NoCall == [op |-> "none", key |-> <<>>, value |-> <<>>, armed |-> FALSE,
           present |-> FALSE, result |-> Absent]

\* The store side at rest, for the runs of the parser alone
StoreIdle ==
    /\ store_ = {}
    /\ flush_interval = 0
    /\ timer_enabled = FALSE
    /\ timer_interval = 0
    /\ timer_pc = "idle"
    /\ debug = TRUE
    /\ flush_calls = 0
    /\ flushed = {}
    /\ call = NoCall
    /\ last_write = [k \in Keys |-> Absent]
    /\ it_pc = "idle"
    /\ store_before_iteration = {}
    /\ remaining = {}
    /\ visited = <<>>
    /\ it_mutated = FALSE
    /\ it_end = "none"

ParseInit ==
    /\ \E inp \in ParseInputs :
          /\ in_pairs = inp[1]
          /\ in_rem = inp[2]
    /\ target0 \in Targets0
    /\ contents = Serialize(in_pairs) \o in_rem
    /\ target = target0
    /\ error = NoError
    /\ parse_pc = "loop"
    /\ StoreIdle

\* The loop body inserting a key whose value token failed, with an empty value
ParseIteration_insertsLoneKey ==
    /\ parse_pc = "loop"
    /\ contents # <<>>
    /\ LET key   == getToken(contents, error)
           value == IF key.ok THEN getToken(key.contents, key.error)
                    ELSE [ok |-> FALSE, token |-> <<>>, contents |-> key.contents,
                          error |-> key.error]
       IN  IF ~key.ok \/ ~value.ok
             THEN /\ parse_pc' = "false"
                  /\ contents' = value.contents
                  /\ error' = value.error
                  /\ target' = IF key.ok THEN emplace(target, key.token, <<>>) ELSE target
             ELSE /\ target' = emplace(target, key.token, value.token)
                  /\ contents' = value.contents
                  /\ error' = value.error
                  /\ parse_pc' = "loop"
    /\ UNCHANGED <<in_pairs, in_rem, target0, store_vars>>

\* The loop body leaving the view where it was after a decoded pair
ParseIteration_keepsView ==
    /\ parse_pc = "loop"
    /\ contents # <<>>
    /\ LET key   == getToken(contents, error)
           value == IF key.ok THEN getToken(key.contents, key.error)
                    ELSE [ok |-> FALSE, token |-> <<>>, contents |-> key.contents,
                          error |-> key.error]
       IN  IF ~key.ok \/ ~value.ok
             THEN /\ parse_pc' = "false"
                  /\ contents' = value.contents
                  /\ error' = value.error
                  /\ target' = target
             ELSE /\ target' = emplace(target, key.token, value.token)
                  /\ contents' = contents
                  /\ error' = value.error
                  /\ parse_pc' = "loop"
    /\ UNCHANGED <<in_pairs, in_rem, target0, store_vars>>

\* One pass through the body of the while loop.
ParseIteration ==
    /\ parse_pc = "loop"
    /\ contents # <<>>
    /\ LET key   == getToken(contents, error)
           value == IF key.ok THEN getToken(key.contents, key.error)
                    ELSE [ok |-> FALSE, token |-> <<>>, contents |-> key.contents,
                          error |-> key.error]
       IN  IF ~key.ok \/ ~value.ok
             THEN /\ parse_pc' = "false"
                  /\ contents' = value.contents
                  /\ error' = value.error
                  /\ target' = target
             ELSE /\ target' = emplace(target, key.token, value.token)
                  /\ contents' = value.contents
                  /\ error' = value.error
                  /\ parse_pc' = "loop"
    /\ UNCHANGED <<in_pairs, in_rem, target0, store_vars>>

ParseReturnTrue ==
    /\ parse_pc = "loop"
    /\ contents = <<>>
    /\ parse_pc' = "true"
    /\ UNCHANGED <<in_pairs, in_rem, target0, contents, target, error, store_vars>>

ParseNext == ParseIteration \/ ParseReturnTrue

SpecParse == ParseInit /\ [][ParseNext]_vars

----------------------------------------------------------------------------
(* KeyValueStoreBase: construction, mutation, lookup, iteration, timer *)

ParseIdle ==
    /\ in_pairs = <<>>
    /\ in_rem = <<>>
    /\ target0 = {}
    /\ contents = <<>>
    /\ target = {}
    /\ error = NoError
    /\ parse_pc = "idle"

\* The constructor enabling the timer whatever the interval
Init_enablesAlways ==
    /\ ParseIdle
    /\ store_ = {}
    /\ flush_interval \in Intervals
    /\ timer_enabled = TRUE
    /\ timer_interval = flush_interval
    /\ timer_pc = "idle"
    /\ debug \in BOOLEAN
    /\ flush_calls = 0
    /\ flushed = {}
    /\ call = NoCall
    /\ last_write = [k \in Keys |-> Absent]
    /\ it_pc = "idle"
    /\ store_before_iteration = {}
    /\ remaining = {}
    /\ visited = <<>>
    /\ it_mutated = FALSE
    /\ it_end = "none"

\* The constructor: the timer is created, and enabled iff the interval is
\* positive.
Init ==
    /\ ParseIdle
    /\ store_ = {}
    /\ flush_interval \in Intervals
    /\ timer_enabled = (flush_interval > 0)
    /\ timer_interval = IF flush_interval > 0 THEN flush_interval ELSE 0
    /\ timer_pc = "idle"
    /\ debug \in BOOLEAN
    /\ flush_calls = 0
    /\ flushed = {}
    /\ call = NoCall
    /\ last_write = [k \in Keys |-> Absent]
    /\ it_pc = "idle"
    /\ store_before_iteration = {}
    /\ remaining = {}
    /\ visited = <<>>
    /\ it_mutated = FALSE
    /\ it_end = "none"

\* A call from the event loop, or from inside an iterate callback
Callable == timer_pc = "idle" /\ it_pc \in {"idle", "in_cb"}

\* The record of the iterate call: a call made inside its callback is noted
\* as mutating or not; a call made after iterate returned closes the record.
IterateRecord(mutates) ==
    IF it_pc = "in_cb"
      THEN /\ it_mutated' = (it_mutated \/ mutates)
           /\ UNCHANGED <<store_before_iteration, remaining, visited, it_end>>
      ELSE /\ it_mutated' = FALSE
           /\ store_before_iteration' = {}
           /\ remaining' = {}
           /\ visited' = <<>>
           /\ it_end' = "none"

\* flush(): pure virtual here; it writes out the mapping it observes.
\* n is the number of flush() invocations the handler has made so far.
flush(n, st) ==
    /\ flush_calls' = n + 1
    /\ flushed' = st

NoFlush ==
    /\ flush_calls' = 0
    /\ flushed' = flushed

\* addOrUpdate flushing whatever the timer says
addOrUpdate_alwaysFlushes(key, value) ==
    /\ Callable
    /\ store_' = insert_or_assign(store_, key, value)
    /\ flush(0, store_')
    /\ call' = [op |-> "addOrUpdate", key |-> key, value |-> value,
                armed |-> timer_enabled, present |-> Contains(store_, key),
                result |-> Absent]
    /\ last_write' = [last_write EXCEPT ![key] = value]
    /\ IterateRecord(TRUE)
    /\ UNCHANGED <<flush_interval, timer_enabled, timer_interval, timer_pc, debug,
                   it_pc, parse_vars>>

\* addOrUpdate with emplace in place of insert_or_assign
addOrUpdate_keepsOld(key, value) ==
    /\ Callable
    /\ store_' = emplace(store_, key, value)
    /\ IF ~timer_enabled THEN flush(0, store_') ELSE NoFlush
    /\ call' = [op |-> "addOrUpdate", key |-> key, value |-> value,
                armed |-> timer_enabled, present |-> Contains(store_, key),
                result |-> Absent]
    /\ last_write' = [last_write EXCEPT ![key] = value]
    /\ IterateRecord(TRUE)
    /\ UNCHANGED <<flush_interval, timer_enabled, timer_interval, timer_pc, debug,
                   it_pc, parse_vars>>

\* addOrUpdate flushing before it assigns
addOrUpdate_flushesFirst(key, value) ==
    /\ Callable
    /\ store_' = insert_or_assign(store_, key, value)
    /\ IF ~timer_enabled THEN flush(0, store_) ELSE NoFlush
    /\ call' = [op |-> "addOrUpdate", key |-> key, value |-> value,
                armed |-> timer_enabled, present |-> Contains(store_, key),
                result |-> Absent]
    /\ last_write' = [last_write EXCEPT ![key] = value]
    /\ IterateRecord(TRUE)
    /\ UNCHANGED <<flush_interval, timer_enabled, timer_interval, timer_pc, debug,
                   it_pc, parse_vars>>

addOrUpdate(key, value) ==
    /\ Callable
    /\ store_' = insert_or_assign(store_, key, value)
    /\ IF ~timer_enabled THEN flush(0, store_') ELSE NoFlush
    /\ call' = [op |-> "addOrUpdate", key |-> key, value |-> value,
                armed |-> timer_enabled, present |-> Contains(store_, key),
                result |-> Absent]
    /\ last_write' = [last_write EXCEPT ![key] = value]
    /\ IterateRecord(TRUE)
    /\ UNCHANGED <<flush_interval, timer_enabled, timer_interval, timer_pc, debug,
                   it_pc, parse_vars>>

\* remove clearing the whole map
remove_clears(key) ==
    /\ Callable
    /\ store_' = IF Contains(store_, key) THEN {} ELSE store_
    /\ IF ~timer_enabled THEN flush(0, store_') ELSE NoFlush
    /\ call' = [op |-> "remove", key |-> key, value |-> <<>>,
                armed |-> timer_enabled, present |-> Contains(store_, key),
                result |-> Absent]
    /\ last_write' = [last_write EXCEPT ![key] = Absent]
    /\ IterateRecord(TRUE)
    /\ UNCHANGED <<flush_interval, timer_enabled, timer_interval, timer_pc, debug,
                   it_pc, parse_vars>>

remove(key) ==
    /\ Callable
    /\ store_' = erase(store_, key)
    /\ IF ~timer_enabled THEN flush(0, store_') ELSE NoFlush
    /\ call' = [op |-> "remove", key |-> key, value |-> <<>>,
                armed |-> timer_enabled, present |-> Contains(store_, key),
                result |-> Absent]
    /\ last_write' = [last_write EXCEPT ![key] = Absent]
    /\ IterateRecord(TRUE)
    /\ UNCHANGED <<flush_interval, timer_enabled, timer_interval, timer_pc, debug,
                   it_pc, parse_vars>>

\* get flushing like a mutation does
get_flushes(key) ==
    /\ Callable
    /\ call' = [op |-> "get", key |-> key, value |-> <<>>,
                armed |-> timer_enabled, present |-> Contains(store_, key),
                result |-> Lookup(store_, key)]
    /\ IF ~timer_enabled THEN flush(0, store_) ELSE NoFlush
    /\ IterateRecord(FALSE)
    /\ UNCHANGED <<store_, flush_interval, timer_enabled, timer_interval, timer_pc,
                   debug, last_write, it_pc, parse_vars>>

get(key) ==
    /\ Callable
    /\ call' = [op |-> "get", key |-> key, value |-> <<>>,
                armed |-> timer_enabled, present |-> Contains(store_, key),
                result |-> IF ~Contains(store_, key) THEN Absent
                           ELSE (CHOOSE p \in store_ : p[1] = key)[2]]
    /\ NoFlush
    /\ IterateRecord(FALSE)
    /\ UNCHANGED <<store_, flush_interval, timer_enabled, timer_interval, timer_pc,
                   debug, last_write, it_pc, parse_vars>>
\* The cleanup comparing the keys only
verify_store_is_not_modified_keysOnly(how) ==
    /\ it_end' = how
    /\ it_pc' = IF debug /\ KeysOf(store_) # KeysOf(store_before_iteration)
                THEN "aborted" ELSE "idle"

\* absl::Cleanup verify_store_is_not_modified, run when iterate returns:
\* the ASSERT aborts the process when the store differs from the snapshot.
verify_store_is_not_modified(how) ==
    /\ it_end' = how
    /\ it_pc' = IF debug /\ store_ # store_before_iteration
                THEN "aborted" ELSE "idle"

\* iterate with a snapshot that is never filled
IterateBegin_noSnapshot ==
    /\ timer_pc = "idle"
    /\ it_pc = "idle"
    /\ store_before_iteration' = {}
    /\ remaining' = KeysOf(store_)
    /\ visited' = <<>>
    /\ it_mutated' = FALSE
    /\ it_end' = "none"
    /\ it_pc' = "loop"
    /\ call' = [op |-> "iterate", key |-> <<>>, value |-> <<>>,
                armed |-> timer_enabled, present |-> FALSE, result |-> Absent]
    /\ NoFlush
    /\ UNCHANGED <<store_, flush_interval, timer_enabled, timer_interval, timer_pc,
                   debug, last_write, parse_vars>>

\* iterate up to the first test of the range-for
IterateBegin ==
    /\ timer_pc = "idle"
    /\ it_pc = "idle"
    /\ store_before_iteration' = IF debug THEN store_ ELSE {}
    /\ remaining' = KeysOf(store_)
    /\ visited' = <<>>
    /\ it_mutated' = FALSE
    /\ it_end' = "none"
    /\ it_pc' = "loop"
    /\ call' = [op |-> "iterate", key |-> <<>>, value |-> <<>>,
                armed |-> timer_enabled, present |-> FALSE, result |-> Absent]
    /\ NoFlush
    /\ UNCHANGED <<store_, flush_interval, timer_enabled, timer_interval, timer_pc,
                   debug, last_write, parse_vars>>

\* The entries the range-for can reach next.  A callback that changed the
\* map has invalidated the iterator: the traversal may then reach any of the
\* current entries, or stop, and `remaining` no longer says anything.
Reachable ==
    IF it_mutated
      THEN {k \in KeysOf(store_) : Len(visited) < MaxVisits}
      ELSE remaining

\* cb(key, value) is entered for the next entry, in the order of the hash map
IterateCallback(key) ==
    /\ it_pc = "loop"
    /\ key \in Reachable
    /\ visited' = Append(visited, [key |-> key, value |-> Lookup(store_, key),
                                   ret |-> "pending"])
    /\ it_pc' = "in_cb"
    /\ UNCHANGED <<store_, flush_interval, timer_enabled, timer_interval, timer_pc,
                   debug, flush_calls, flushed, call, last_write,
                   store_before_iteration, remaining, it_mutated, it_end,
                   parse_vars>>

\* The callback return that goes on after Break
CallbackReturn_ignoresBreak(ret) ==
    /\ it_pc = "in_cb"
    /\ visited' = [visited EXCEPT ![Len(visited)].ret = ret]
    /\ remaining' = IF it_mutated THEN {} ELSE remaining \ {visited[Len(visited)].key}
    /\ it_pc' = "loop" /\ it_end' = it_end
    /\ UNCHANGED <<store_, flush_interval, timer_enabled, timer_interval, timer_pc,
                   debug, flush_calls, flushed, call, last_write,
                   store_before_iteration, it_mutated, parse_vars>>

\* The callback returns; Break returns from iterate, which runs the cleanup.
CallbackReturn(ret) ==
    /\ it_pc = "in_cb"
    /\ visited' = [visited EXCEPT ![Len(visited)].ret = ret]
    /\ remaining' = IF it_mutated THEN {} ELSE remaining \ {visited[Len(visited)].key}
    /\ IF ret = "Break"
         THEN verify_store_is_not_modified("break")
         ELSE it_pc' = "loop" /\ it_end' = it_end
    /\ UNCHANGED <<store_, flush_interval, timer_enabled, timer_interval, timer_pc,
                   debug, flush_calls, flushed, call, last_write,
                   store_before_iteration, it_mutated, parse_vars>>

\* The range-for is exhausted: iterate returns and the cleanup runs.
IterateExhausted ==
    /\ it_pc = "loop"
    /\ (remaining = {} \/ it_mutated)
    /\ verify_store_is_not_modified("exhausted")
    /\ UNCHANGED <<store_, flush_interval, timer_enabled, timer_interval, timer_pc,
                   debug, flush_calls, flushed, call, last_write,
                   store_before_iteration, remaining, visited, it_mutated,
                   parse_vars>>

\* The timer callback re-arming before it flushes
TimerFire_rearmsFirst ==
    /\ timer_pc = "idle"
    /\ it_pc = "idle"
    /\ timer_enabled
    /\ timer_enabled' = TRUE
    /\ flush(0, store_)
    /\ timer_pc' = "flushed"
    /\ call' = [op |-> "timer", key |-> <<>>, value |-> <<>>,
                armed |-> timer_enabled, present |-> FALSE, result |-> Absent]
    /\ IterateRecord(FALSE)
    /\ UNCHANGED <<store_, flush_interval, timer_interval, debug, last_write, it_pc,
                   parse_vars>>

\* The timer callback without its flush()
TimerFire_skipsFlush ==
    /\ timer_pc = "idle"
    /\ it_pc = "idle"
    /\ timer_enabled
    /\ timer_enabled' = FALSE
    /\ NoFlush
    /\ timer_pc' = "flushed"
    /\ call' = [op |-> "timer", key |-> <<>>, value |-> <<>>,
                armed |-> timer_enabled, present |-> FALSE, result |-> Absent]
    /\ IterateRecord(FALSE)
    /\ UNCHANGED <<store_, flush_interval, timer_interval, debug, last_write, it_pc,
                   parse_vars>>

\* The dispatcher fires the enabled timer, which is then no longer enabled,
\* and the callback runs its first statement, flush().
TimerFire ==
    /\ timer_pc = "idle"
    /\ it_pc = "idle"
    /\ timer_enabled
    /\ timer_enabled' = FALSE
    /\ flush(0, store_)
    /\ timer_pc' = "flushed"
    /\ call' = [op |-> "timer", key |-> <<>>, value |-> <<>>,
                armed |-> timer_enabled, present |-> FALSE, result |-> Absent]
    /\ IterateRecord(FALSE)
    /\ UNCHANGED <<store_, flush_interval, timer_interval, debug, last_write, it_pc,
                   parse_vars>>

\* The callback returning without enableTimer
TimerRearm_forgets ==
    /\ timer_pc = "flushed"
    /\ timer_enabled' = FALSE
    /\ timer_interval' = timer_interval
    /\ timer_pc' = "idle"
    /\ UNCHANGED <<store_, flush_interval, debug, flush_calls, flushed, call,
                   last_write, it_pc, store_before_iteration, remaining, visited,
                   it_mutated, it_end, parse_vars>>

\* The callback's second statement, flush_timer_->enableTimer(flush_interval)
TimerRearm ==
    /\ timer_pc = "flushed"
    /\ timer_enabled' = TRUE
    /\ timer_interval' = flush_interval
    /\ timer_pc' = "idle"
    /\ UNCHANGED <<store_, flush_interval, debug, flush_calls, flushed, call,
                   last_write, it_pc, store_before_iteration, remaining, visited,
                   it_mutated, it_end, parse_vars>>

\* parseContents as a function of the buffer and the target: the return
\* value and the target as the call leaves it.
RECURSIVE parseContents(_, _)
parseContents(cont, st) ==
    IF cont = <<>> THEN [ret |-> TRUE, store |-> st]
    ELSE LET key   == getToken(cont, NoError)
             value == getToken(key.contents, key.error)
         IN  IF ~key.ok \/ ~value.ok THEN [ret |-> FALSE, store |-> st]
             ELSE parseContents(value.contents, emplace(st, key.token, value.token))

\* Buffers handed to parseContents on a constructed store
CallBuffers ==
    { <<49, NL, 97, 49, NL, 120>>,      \* a -> x
      <<49, NL, 98, 49, NL, 121, 49>> } \* b -> y, then a truncated token

\* parseContents called from the event loop on the store object, with a target
\* of the caller's; the method is const and reads neither store_ nor the timer.
parseContentsCall(buf) ==
    /\ timer_pc = "idle"
    /\ it_pc = "idle"
    /\ call' = [op |-> "parseContents", key |-> buf, value |-> <<>>,
                armed |-> timer_enabled, present |-> parseContents(buf, {}).ret,
                result |-> Absent]
    /\ NoFlush
    /\ IterateRecord(FALSE)
    /\ UNCHANGED <<store_, flush_interval, timer_enabled, timer_interval, timer_pc,
                   debug, last_write, it_pc, parse_vars>>

Next ==
    \/ \E k \in Keys : \E v \in Values : addOrUpdate(k, v)
    \/ \E k \in Keys : remove(k)
    \/ \E k \in Keys : get(k)
    \/ IterateBegin
    \/ \E k \in Keys : IterateCallback(k)
    \/ \E r \in {"Continue", "Break"} : CallbackReturn(r)
    \/ IterateExhausted
    \/ TimerFire
    \/ TimerRearm
    \/ \E b \in CallBuffers : parseContentsCall(b)

Spec == Init /\ [][Next]_vars

\* The store used within its contract: the iterate callback does not call
\* addOrUpdate or remove.  The dispatcher runs the callback of an enabled
\* timer between two events; every call, and every callback, returns.
NextLive ==
    \/ \E k \in Keys : \E v \in Values : it_pc = "idle" /\ addOrUpdate(k, v)
    \/ \E k \in Keys : it_pc = "idle" /\ remove(k)
    \/ \E k \in Keys : get(k)
    \/ IterateBegin
    \/ \E k \in Keys : IterateCallback(k)
    \/ \E r \in {"Continue", "Break"} : CallbackReturn(r)
    \/ IterateExhausted
    \/ TimerFire
    \/ TimerRearm
    \/ \E b \in CallBuffers : parseContentsCall(b)

SpecLive ==
    /\ Init
    /\ [][NextLive]_vars
    /\ SF_vars(TimerFire)
    /\ WF_vars(TimerRearm)
    /\ WF_vars(\E r \in {"Continue", "Break"} : CallbackReturn(r))
    /\ WF_vars(IterateExhausted \/ \E k \in Keys : IterateCallback(k))

----------------------------------------------------------------------------
(* Properties of parseContents *)

ParseDone == parse_pc \in {"true", "false"}
PairSet(ps) == {ps[i] : i \in 1..Len(ps)}
DistinctKeys(ps) == \A i \in 1..Len(ps) : \A j \in 1..Len(ps) : ps[i][1] = ps[j][1] => i = j
FirstValue(ps, k) == ps[SetMin({i \in 1..Len(ps) : ps[i][1] = k})][2]
LastValue(ps, k) == ps[SetMax({i \in 1..Len(ps) : ps[i][1] = k})][2]
IsSuffix(s, t) == Len(s) <= Len(t) /\ s = DropPrefix(t, Len(t) - Len(s))

\* C1: the wire form of a mapping M (pairs in any order, keys unique), parsed
\* into an empty target, is accepted and yields exactly M.
C1_RoundTrip ==
    (ParseDone /\ target0 = {} /\ in_rem = <<>> /\ DistinctKeys(in_pairs))
        => (parse_pc = "true" /\ target = PairSet(in_pairs))

C1_Witness ==
    /\ parse_pc = "true" /\ target0 = {} /\ in_rem = <<>>
    /\ Len(in_pairs) = 2 /\ DistinctKeys(in_pairs)
    /\ \E i \in 1..2 : in_pairs[i] = <<<<49, NL>>, LongValue>>
    /\ \E i \in 1..2 : in_pairs[i][1] = <<>>
    /\ target = PairSet(in_pairs)

\* A token as the three rules of the token reader accept it
WellFormedToken(s) ==
    LET it == FindNewline(s)
        n  == SimpleAtoi(TakePrefix(s, it - 1))
    IN  it # 0 /\ n.ok /\ Len(s) - it >= n.value
AfterToken(s) ==
    DropPrefix(s, FindNewline(s) + SimpleAtoi(TakePrefix(s, FindNewline(s) - 1)).value)
MalformedRemainder(rem) ==
    /\ rem # <<>>
    /\ ~(WellFormedToken(rem) /\ WellFormedToken(AfterToken(rem)))

\* C3: N well-formed pairs followed by a remainder whose first key token or
\* value token is malformed or truncated: parsing into an empty target returns
\* false, the target holds the pairs decoded before the failure and nothing of
\* the failing pair, and parsing stops inside the remainder.
C3_PartialFailure ==
    (ParseDone /\ target0 = {} /\ MalformedRemainder(in_rem))
        => /\ parse_pc = "false"
           /\ UniqueKeys(target)
           /\ target \subseteq PairSet(in_pairs)
           /\ KeysOf(target) = KeysOf(PairSet(in_pairs))
           /\ DistinctKeys(in_pairs) => target = PairSet(in_pairs)
           /\ IsSuffix(contents, in_rem)
           /\ error # NoError

C3_Witness ==
    /\ parse_pc = "false" /\ target0 = {}
    /\ Len(in_pairs) = 2 /\ DistinctKeys(in_pairs)
    /\ in_rem = <<49, NL, 97>>
    /\ target = PairSet(in_pairs)
    /\ ~Contains(target, <<97>>)
    /\ error = ErrNoNewline

\* C4 as stated: after a successful parse each key of the buffer maps to the
\* value of its last occurrence in the buffer.
C4_LastOccurrenceWins ==
    (parse_pc = "true" /\ in_rem = <<>>)
        => \A k \in KeysOf(PairSet(in_pairs)) : Lookup(target, k) = LastValue(in_pairs, k)

\* C4 amended: parseContents never overwrites; after a successful parse a key
\* the target held before the call keeps that value, and any other key of the
\* buffer maps to the value of its first occurrence in the buffer.
C4_FirstOccurrenceKept ==
    (parse_pc = "true" /\ in_rem = <<>>)
        => /\ UniqueKeys(target)
           /\ KeysOf(target) = KeysOf(target0) \cup KeysOf(PairSet(in_pairs))
           /\ \A k \in KeysOf(target) :
                Lookup(target, k) = IF Contains(target0, k) THEN Lookup(target0, k)
                                    ELSE FirstValue(in_pairs, k)

C4_Witness ==
    /\ parse_pc = "true" /\ in_rem = <<>> /\ target0 # {}
    /\ Len(in_pairs) = 2
    /\ in_pairs[1][1] = <<>> /\ in_pairs[2][1] = <<>>
    /\ in_pairs[1][2] = <<98>> /\ in_pairs[2][2] = LongValue
    /\ Lookup(target, <<>>) = <<98>>

----------------------------------------------------------------------------
(* Properties of the store *)

\* A step that is a call of addOrUpdate or remove
MutatingCall == call' # call /\ call'.op \in {"addOrUpdate", "remove"}

\* C2: a call of addOrUpdate or remove made while the timer is not enabled
\* invokes flush exactly once and leaves the timer not enabled; made while the
\* timer is enabled it invokes flush zero times.
C2_FlushIffDisarmed ==
    [][MutatingCall =>
          /\ call'.armed = timer_enabled
          /\ IF timer_enabled
               THEN flush_calls' = 0 /\ flushed' = flushed
               ELSE flush_calls' = 1 /\ ~timer_enabled']_vars

C2_Witness ==
    /\ call.op = "remove" /\ ~call.present /\ ~call.armed
    /\ flush_calls = 1 /\ ~timer_enabled /\ store_ # {}

\* The iterate call has returned or aborted, and no call has been made since
IterateEnded == it_end # "none"

\* C5 as stated: in a debug build every iterate call whose callback called
\* addOrUpdate or remove ends in the fatal assertion.
C5_EveryMutationAsserts ==
    (debug /\ IterateEnded /\ it_mutated) => it_pc = "aborted"

\* C5 amended: in a debug build an iterate call ends in the fatal assertion
\* exactly when the mapping at its end differs from the mapping at its start,
\* by exhaustion and by Break alike; a release build never asserts.
C5_AssertsIffMappingChanged ==
    /\ [][it_pc' = "loop" /\ it_pc = "idle" /\ debug
            => store_before_iteration' = store_]_vars
    /\ [](IterateEnded =>
            (it_pc = "aborted" <=> (debug /\ store_ # store_before_iteration)))

C5_Witness ==
    /\ debug /\ IterateEnded /\ it_mutated /\ it_end = "break"
    /\ it_pc = "aborted"
    /\ KeysOf(store_) = KeysOf(store_before_iteration)
    /\ store_ # store_before_iteration

\* C6: get(k) is the value of the most recent addOrUpdate(k, _) unless a
\* remove(k) came after it; no key has two entries; addOrUpdate on a key the
\* store holds keeps the number of entries and every other key's value.
C6_Overwrite ==
    /\ [](\A k \in Keys : Lookup(store_, k) = last_write[k])
    /\ [](UniqueKeys(store_) /\ KeysOf(store_) \subseteq Keys)
    /\ [][call' # call /\ call'.op = "addOrUpdate" =>
            /\ <<call'.key, call'.value>> \in store_'
            /\ \A k \in Keys \ {call'.key} : Lookup(store_', k) = Lookup(store_, k)
            /\ Contains(store_, call'.key) => Cardinality(store_') = Cardinality(store_)
            /\ ~Contains(store_, call'.key) => Cardinality(store_') = Cardinality(store_) + 1
         ]_vars

C6_Witness ==
    /\ call.op = "addOrUpdate" /\ call.present
    /\ Cardinality(store_) = 2
    /\ Lookup(store_, call.key) = call.value
    /\ call.value = <<121>>
    /\ \E k \in Keys : last_write[k] = <<120>>

\* C7: remove(k) of an absent key leaves the mapping unchanged; remove(k) of a
\* present key deletes exactly that entry and no other.
C7_Remove ==
    [][call' # call /\ call'.op = "remove" =>
          /\ it_pc' = it_pc
          /\ ~Contains(store_', call'.key)
          /\ \A k \in Keys \ {call'.key} : Lookup(store_', k) = Lookup(store_, k)
          /\ IF Contains(store_, call'.key)
               THEN Cardinality(store_') = Cardinality(store_) - 1
               ELSE store_' = store_
      ]_vars

C7_Witness ==
    /\ call.op = "remove" /\ call.present
    /\ Cardinality(store_) = 1
    /\ ~Contains(store_, call.key)

VisitedKeys == {visited[i].key : i \in 1..Len(visited)}

\* C8: with a callback that does not mutate the store, iterate calls it only
\* on entries of the store and never twice on a key; no callback follows one
\* that returned Break; a Break on the k-th invocation ends it with k entries
\* visited, and with Continue throughout every entry is visited exactly once.
C8_Iteration ==
    /\ []((it_pc \in {"loop", "in_cb"} \/ IterateEnded) /\ ~it_mutated =>
            /\ \A i \in 1..Len(visited) :
                 <<visited[i].key, visited[i].value>> \in store_
            /\ \A i \in 1..Len(visited) : \A j \in 1..Len(visited) :
                 visited[i].key = visited[j].key => i = j)
    /\ [](\A i \in 1..(Len(visited) - 1) : visited[i].ret = "Continue")
    /\ [](IterateEnded /\ ~it_mutated /\ it_end = "break" =>
            /\ Len(visited) >= 1
            /\ visited[Len(visited)].ret = "Break"
            /\ Cardinality(VisitedKeys) = Len(visited))
    /\ [](IterateEnded /\ ~it_mutated /\ it_end = "exhausted" =>
            /\ \A i \in 1..Len(visited) : visited[i].ret = "Continue"
            /\ {<<visited[i].key, visited[i].value>> : i \in 1..Len(visited)} = store_
            /\ Len(visited) = Cardinality(store_))
    /\ [][IterateEnded /\ IterateEnded' => visited' = visited]_vars

C8_Witness ==
    /\ IterateEnded /\ ~it_mutated /\ it_end = "break"
    /\ Cardinality(store_) = 2
    /\ Len(visited) = 1
    /\ visited[1].ret = "Break"

\* C9: get(key) returns the value held for key, or absent; it leaves the
\* mapping and the timer as they are and invokes flush zero times.
C9_Get ==
    [][call' # call /\ call'.op = "get" =>
          /\ \/ <<call'.key, call'.result>> \in store_
             \/ (call'.result = Absent /\ \A v \in Values : <<call'.key, v>> \notin store_)
          /\ store_' = store_
          /\ timer_enabled' = timer_enabled
          /\ timer_interval' = timer_interval
          /\ flush_calls' = 0
          /\ flushed' = flushed
      ]_vars

C9_Witness ==
    /\ call.op = "get" /\ call.result = <<121>> /\ ~call.armed
    /\ ~timer_enabled /\ flush_calls = 0
    /\ Cardinality(store_) = 2 /\ flushed = store_

\* C10: a firing of the timer invokes flush once, with the timer not enabled,
\* and then enables the timer with the interval given at construction; after
\* the callback the timer is enabled again, so it can fire again.
C10_TimerFire ==
    /\ [][call' # call /\ call'.op = "timer" =>
            /\ timer_enabled /\ flush_interval > 0
            /\ timer_pc' = "flushed"
            /\ flush_calls' = 1 /\ flushed' = store_
            /\ ~timer_enabled']_vars
    /\ [][timer_pc = "flushed" =>
            /\ timer_pc' = "idle"
            /\ timer_enabled' /\ timer_interval' = flush_interval
            /\ flush_calls' = 1 /\ flushed' = flushed /\ store_' = store_]_vars
    /\ [](timer_pc = "idle" /\ it_pc = "idle" /\ flush_interval > 0 => ENABLED TimerFire)

C10_Witness ==
    /\ call.op = "timer" /\ timer_pc = "idle" /\ timer_enabled
    /\ timer_interval = flush_interval /\ flush_calls = 1
    /\ store_ # {} /\ flushed = store_

\* C11: a store constructed with interval <= 0 never has its timer enabled,
\* its timer callback never runs, and each of its addOrUpdate/remove calls
\* flushes within the call.
C11_NeverArmed ==
    /\ [](flush_interval <= 0 =>
            ~timer_enabled /\ timer_pc = "idle" /\ call.op # "timer")
    /\ [][flush_interval <= 0 => ~timer_enabled']_vars
    /\ [][MutatingCall /\ flush_interval <= 0 =>
            flush_calls' = 1 /\ flushed' = store_']_vars

C11_Witness ==
    /\ flush_interval <= 0 /\ ~timer_enabled
    /\ IterateEnded /\ it_mutated /\ it_pc = "idle"
    /\ call.op = "addOrUpdate" /\ flush_calls = 1
    /\ Cardinality(store_) = 2 /\ flushed = store_

\* C13: a store constructed with interval > 0 has its timer enabled at
\* construction and at every call of addOrUpdate/remove; the timer is not
\* enabled only inside the timer callback, between the fire and the re-arm;
\* no addOrUpdate/remove call of such a store flushes.
C13_ArmedOutsideCallback ==
    /\ [](flush_interval > 0 => (timer_enabled <=> timer_pc = "idle"))
    /\ [](flush_interval > 0 /\ timer_enabled => timer_interval = flush_interval)
    /\ [][MutatingCall /\ flush_interval > 0 =>
            /\ timer_enabled /\ call'.armed
            /\ flush_calls' = 0 /\ flushed' = flushed]_vars

C13_Witness ==
    /\ flush_interval > 0 /\ timer_enabled /\ timer_pc = "idle"
    /\ call.op = "remove" /\ call.present /\ call.armed
    /\ flush_calls = 0
    /\ flushed # {} /\ flushed # store_

\* C15: when addOrUpdate(k, v) or remove(k) invokes flush, the mapping flush
\* observes is the mapping after the mutation: k maps to v, respectively k is
\* absent.
C15_MutateThenFlush ==
    [][MutatingCall /\ flush_calls' >= 1 =>
          /\ flushed' = store_'
          /\ call'.op = "addOrUpdate" => <<call'.key, call'.value>> \in flushed'
          /\ call'.op = "remove" => ~Contains(flushed', call'.key)]_vars

C15_Witness ==
    /\ call.op = "addOrUpdate" /\ call.present /\ ~call.armed
    /\ flush_calls = 1
    /\ <<call.key, call.value>> \in flushed
    /\ Cardinality(flushed) = 2

\* A step of iterate: its entry, a callback entry or return, or its return
IterateStep == it_pc' # it_pc

\* C18: iterate with a callback that does not mutate the store, and
\* parseContents into a target of the caller's, leave the store's mapping and
\* the timer as they are and invoke flush zero times; in a debug build such an
\* iterate call, ended by exhaustion or by Break, does not trip the assertion.
C18_ReadOnlyOperations ==
    /\ [][IterateStep /\ ~it_mutated' =>
            /\ store_' = store_
            /\ timer_enabled' = timer_enabled /\ timer_interval' = timer_interval
            /\ flushed' = flushed /\ flush_calls' = 0]_vars
    /\ [](IterateEnded /\ ~it_mutated =>
            it_pc = "idle" /\ it_end \in {"exhausted", "break"})
    /\ [][call' # call /\ call'.op = "parseContents" =>
            /\ store_' = store_
            /\ timer_enabled' = timer_enabled /\ timer_interval' = timer_interval
            /\ flushed' = flushed /\ flush_calls' = 0]_vars

C18_Witness ==
    /\ debug /\ IterateEnded /\ ~it_mutated /\ it_end = "exhausted"
    /\ it_pc = "idle" /\ Len(visited) = 2
    /\ ~timer_enabled /\ flush_calls = 0
    /\ store_ = store_before_iteration

----------------------------------------------------------------------------
(* Properties of getToken and of the loop of parseContents *)

\* The views getToken is applied to in the coming pass of the loop: the view
\* at the key token and, when that token is read, the view at the value token
TokenViews ==
    IF parse_pc = "loop" /\ contents # <<>>
      THEN {contents} \cup
           (IF getToken(contents, error).ok
              THEN {getToken(contents, error).contents} ELSE {})
      ELSE {}

HasNewline(s) == \E i \in 1..Len(s) : s[i] = NL
NewlineAt(s) == CHOOSE i \in 1..Len(s) : s[i] = NL /\ \A j \in 1..(i - 1) : s[j] # NL
LengthPrefix(s) == SubSeq(s, 1, NewlineAt(s) - 1)
AllDigits(d) == d # <<>> /\ \A i \in 1..Len(d) : d[i] \in 48..57

\* C12: getToken returns a token iff the view has a newline, the bytes before
\* the first newline parse as a length L and at least L bytes follow it; the
\* token is those L bytes and the view advances by prefix + 1 + L bytes;
\* otherwise the error is that of the first rule violated, in the order no
\* newline, no length, insufficient contents.  A prefix of digits parses as
\* its decimal value; an empty prefix or one with a letter does not parse.
C12_GetToken ==
    \A s \in TokenViews :
        LET r == getToken(s, error)
            p == NewlineAt(s)
            L == SimpleAtoi(LengthPrefix(s))
        IN  /\ r.ok <=> (HasNewline(s) /\ L.ok /\ Len(s) - p >= L.value)
            /\ r.ok => /\ r.token = SubSeq(s, p + 1, p + L.value)
                       /\ r.contents = SubSeq(s, p + L.value + 1, Len(s))
                       /\ Len(r.contents) = Len(s) - ((p - 1) + 1 + L.value)
                       /\ r.error = error
            /\ ~HasNewline(s) => r.error = ErrNoNewline
            /\ HasNewline(s) /\ ~L.ok => r.error = ErrNoLength
            /\ HasNewline(s) /\ L.ok /\ Len(s) - p < L.value => r.error = ErrInsufficient
            /\ HasNewline(s) /\ LengthPrefix(s) = <<>> => ~L.ok
            /\ HasNewline(s) /\ (\E i \in 1..(p - 1) : s[i] \in {97, 98, 120}) => ~L.ok
            /\ HasNewline(s) /\ AllDigits(LengthPrefix(s)) /\ p <= 10
                 => L.ok /\ L.value = DigitsValue(LengthPrefix(s))

C12_Witness ==
    /\ parse_pc = "false" /\ error = ErrNoLength
    /\ in_pairs = <<>> /\ in_rem = <<NL, 49, NL>>
    /\ contents = in_rem /\ target = target0

\* d, a string of digits, denotes a value above 2^64 - 1 = 18446744073709551615
ExceedsUint64(d) ==
    LET nz  == {i \in 1..Len(d) : d[i] # 48}
        sig == IF nz = {} THEN <<>>
               ELSE SubSeq(d, CHOOSE i \in nz : \A j \in nz : i <= j, Len(d))
        a   == DigitsValue(SubSeq(sig, 1, 2))
        b   == DigitsValue(SubSeq(sig, 3, 11))
        c   == DigitsValue(SubSeq(sig, 12, 20))
    IN  \/ Len(sig) > 20
        \/ /\ Len(sig) = 20
           /\ \/ a > 18
              \/ a = 18 /\ b > 446744073
              \/ a = 18 /\ b = 446744073 /\ c > 709551615

\* C16: a length prefix of digits that denotes more than 2^64 - 1 is refused
\* with "no length" and the view is left as it was; it is never taken for a
\* smaller length.  A length that fits and exceeds the bytes after the
\* newline is refused with "insufficient contents"; a token returned lies
\* within the view.
C16_LengthOverflow ==
    \A s \in TokenViews :
        HasNewline(s) /\ AllDigits(LengthPrefix(s)) =>
            LET r == getToken(s, error)
                d == LengthPrefix(s)
                after == Len(s) - NewlineAt(s)
            IN  /\ ExceedsUint64(d) =>
                     ~r.ok /\ r.error = ErrNoLength /\ r.contents = s
                /\ ~ExceedsUint64(d) /\ SimpleAtoi(d).value > after =>
                     ~r.ok /\ r.error = ErrInsufficient
                /\ ~ExceedsUint64(d) => SimpleAtoi(d).ok
                /\ r.ok => ~ExceedsUint64(d) /\ Len(r.token) <= after

C16_Witness ==
    /\ parse_pc = "false" /\ error = ErrNoLength
    /\ Len(in_pairs) = 1 /\ target0 = {}
    /\ in_rem = TwoTo64Digits \o <<NL, 48, NL>>
    /\ contents = in_rem
    /\ target = PairSet(in_pairs)

\* The buffer is a sequence of pairs of well-formed tokens
RECURSIVE AllPairs(_)
AllPairs(s) ==
    \/ s = <<>>
    \/ /\ WellFormedToken(s)
       /\ WellFormedToken(AfterToken(s))
       /\ AllPairs(AfterToken(AfterToken(s)))

\* C17: a pass of the loop either returns false or shortens the view by at
\* least four bytes, so the loop ends on every buffer; parseContents returns
\* true exactly when the buffer is consumed to empty as pairs of tokens; an
\* empty buffer returns true and leaves the target as it was.
C17_Terminates ==
    /\ [][parse_pc = "loop" =>
            \/ parse_pc' = "false"
            \/ parse_pc' = "true" /\ contents = <<>> /\ target' = target
            \/ /\ parse_pc' = "loop"
               /\ Len(contents') + 4 <= Len(contents)
               /\ IsSuffix(contents', contents)]_vars
    /\ [][ParseDone => UNCHANGED parse_vars]_vars
    /\ [](parse_pc = "loop" => IsSuffix(contents, Serialize(in_pairs) \o in_rem))
    /\ [](parse_pc = "true" => contents = <<>>)
    /\ [](ParseDone =>
            (parse_pc = "true" <=> AllPairs(Serialize(in_pairs) \o in_rem)))
    /\ [](ParseDone /\ in_pairs = <<>> /\ in_rem = <<>> =>
            parse_pc = "true" /\ target = target0)

C17_Witness ==
    /\ parse_pc = "true" /\ in_pairs = <<>> /\ in_rem = <<>>
    /\ target0 # {} /\ target = target0 /\ contents = <<>>

----------------------------------------------------------------------------
(* Liveness of the flush *)

\* The last call made on the store is a mutation
MutationMade == call.op \in {"addOrUpdate", "remove"}

\* The last handler run invoked flush, on the mapping as it is now
FlushRan == flush_calls >= 1 /\ flushed = store_

\* C14: when an enabled timer eventually fires, every addOrUpdate/remove call
\* is followed by a flush of the mapping it left or of a later one; with
\* interval <= 0 that flush is made within the call.
C14_EventuallyFlushed ==
    /\ [](MutationMade => <>FlushRan)
    /\ [][MutatingCall /\ flush_interval <= 0 => FlushRan']_vars

C14_Witness ==
    /\ flush_interval > 0 /\ call.op = "timer" /\ timer_pc = "flushed"
    /\ FlushRan /\ Cardinality(store_) = 2
    /\ \E k \in Keys : last_write[k] = <<121>>

====
